---- MODULE Spec2Model ----
(***************************************************************************)
(* perf-event-open-sys: the perf_event_open shim and the twelve ioctl      *)
(* shims of src/src/lib.rs, as a state machine.                            *)
(*                                                                         *)
(* A caller thread invokes a shim (Call_perf_event_open, Call_ioctl): the  *)
(* shim computes the libc call it makes and the thread enters the kernel.  *)
(* Complete is the rest of the blocking call: the kernel executes the      *)
(* request, libc turns the kernel's raw result into its return value and   *)
(* errno, and the shim narrows and returns it.                             *)
(*                                                                         *)
(* Machine words are kept at their width as little-endian sequences of     *)
(* 16-bit limbs: a 32-bit word is <<lo, hi>>, a 64-bit word has four       *)
(* limbs.  Casts are modelled by what they do to the limbs.                *)
(*                                                                         *)
(* The kernel and libc are the environment.  What the crate documents of   *)
(* the kernel (the size handling of perf_event_attr, lib.rs 54-97 and      *)
(* 139-141) is modelled as documented; everything the source is silent on  *)
(* is an environment choice (fault, val, newfd in Complete).               *)
(***************************************************************************)
EXTENDS Integers, Sequences, FiniteSets, TLC

VARIABLES
    target_env,  \* cfg(target_env): "gnu" or "musl", fixed at build time
    ksize,       \* sizeof(perf_event_attr) of the running kernel, in bytes
    pc,          \* pc[t]: "idle" or "inKernel"
    call,        \* call[t]: the shim invocation in progress, or the last one
    req,         \* req[t]: the libc call the shim made for call[t]
    nreq,        \* nreq[t]: kernel requests issued for call[t]
    attrs,       \* attrs[t]: the caller's perf_event_attr (user memory)
    attrs0,      \* attrs0[t]: attrs[t] as it was when call[t] began
    errno,       \* errno[t]: the thread's C errno
    errno0,      \* errno0[t]: errno[t] as it was when call[t] began
    kres,        \* kres[t]: the kernel's raw result for call[t]
    ret,         \* ret[t]: what the shim returned for call[t]
    fdtab,       \* the kernel's perf descriptors: fd -> closed, or the event
    solo,        \* solo[t]: the descriptors as if only thread t had run
    kresSolo,    \* kresSolo[t]: the raw result call[t] gets against solo[t]
    kattr        \* kattr[t]: the struct the kernel ended up with for call[t]

vars == <<target_env, ksize, pc, call, req, nreq, attrs, attrs0, errno,
          errno0, kres, ret, fdtab, solo, kresSolo, kattr>>

---------------------------------------------------------------------------
(* Bounds of the model *)

NumThreads == 2
MaxFd == 4

Threads == 1..NumThreads
MainThread == 1
FdPool == 3..MaxFd

---------------------------------------------------------------------------
(* Machine words *)

Limb == 2^16

\* A value in -2^31 .. 2^31-1 as a 64-bit two's complement word.
ToLong(v) ==
    <<v % Limb, (v \div Limb) % Limb,
      IF v < 0 THEN Limb - 1 ELSE 0, IF v < 0 THEN Limb - 1 ELSE 0>>

\* A 32-bit word read as a signed value.
SVal32(w) ==
    IF w[2] >= Limb \div 2 THEN (w[2] - Limb) * Limb + w[1]
                           ELSE w[2] * Limb + w[1]

\* The low 32 bits of a word.
Low32(w) == <<w[1], w[2]>>

\* u32 as c_ulong (lib.rs 213): zero extension to 64 bits.
as_c_ulong(w) == <<w[1], w[2], 0, 0>>

\* A cast that saturates at c_int::MAX instead of wrapping.
as_c_int_saturating(w) == IF w[2] >= Limb \div 2 THEN <<Limb - 1, Limb \div 2 - 1>> ELSE <<w[1], w[2]>>

\* u32 as c_int (lib.rs 210): the same 32 bits, now read as signed.
as_c_int(w) == <<w[1], w[2]>>

\* A narrowing to an unsigned 16-bit type.
long_as_u16(w) == w[1]

\* c_long as c_int (lib.rs 158): the low 32 bits, read as signed.
long_as_c_int(w) == SVal32(Low32(w))

\* C's conversion of an int argument to the long register the kernel entry
\* takes: sign extension.
SignExtend64(w) ==
    <<w[1], w[2],
      IF w[2] >= Limb \div 2 THEN Limb - 1 ELSE 0,
      IF w[2] >= Limb \div 2 THEN Limb - 1 ELSE 0>>

---------------------------------------------------------------------------
(* bindings: the constants the shims use.  bindings.rs is generated from   *)
(* <linux/perf_event.h>; the values are those of the kernel headers.       *)

\* __NR_perf_event_open (x86_64).
NR_perf_event_open == 298

\* _IOC(dir, '$', nr, size) as a 32-bit word: dir << 30 | size << 16 |
\* '$' << 8 | nr.
IOC(dir, size, nr) == <<36 * 256 + nr, dir * 16384 + size>>

\* The perf_event_ioctls_* constants, of type perf_event_ioctls = u32.
perf_event_ioctls(c) ==
    CASE c = "perf_event_ioctls_ENABLE"            -> IOC(0, 0, 0)
      [] c = "perf_event_ioctls_DISABLE"           -> IOC(0, 0, 1)
      [] c = "perf_event_ioctls_REFRESH"           -> IOC(0, 0, 2)
      [] c = "perf_event_ioctls_RESET"             -> IOC(0, 0, 3)
      [] c = "perf_event_ioctls_PERIOD"            -> IOC(1, 8, 4)
      [] c = "perf_event_ioctls_SET_OUTPUT"        -> IOC(0, 0, 5)
      [] c = "perf_event_ioctls_SET_FILTER"        -> IOC(1, 8, 6)
      [] c = "perf_event_ioctls_ID"                -> IOC(2, 8, 7)
      [] c = "perf_event_ioctls_SET_BPF"           -> IOC(1, 4, 8)
      [] c = "perf_event_ioctls_PAUSE_OUTPUT"      -> IOC(1, 4, 9)
      [] c = "perf_event_ioctls_QUERY_BPF"         -> IOC(3, 8, 10)
      [] c = "perf_event_ioctls_MODIFY_ATTRIBUTES" -> IOC(1, 8, 11)

\* PERF_ATTR_SIZE_VER0: the size of the first published perf_event_attr.
PERF_ATTR_SIZE_VER0 == 64

\* The largest size field the kernel accepts.
PAGE_SIZE == 4096

---------------------------------------------------------------------------
(* The shims *)

\* The names define_ioctls! defines (lib.rs 189-202).
IoctlNames ==
    {"ENABLE", "DISABLE", "REFRESH", "RESET", "PERIOD", "SET_OUTPUT",
     "SET_FILTER", "ID", "SET_BPF", "PAUSE_OUTPUT", "QUERY_BPF",
     "MODIFY_ATTRIBUTES"}

\* The entries of define_ioctls! (lib.rs 189-202): each shim's request
\* constant and argument type.
IoctlTable ==
    [ENABLE            |-> [ioctl |-> "perf_event_ioctls_ENABLE", arg_type |-> "c_uint"],
     DISABLE           |-> [ioctl |-> "perf_event_ioctls_DISABLE", arg_type |-> "c_uint"],
     REFRESH           |-> [ioctl |-> "perf_event_ioctls_REFRESH", arg_type |-> "c_int"],
     RESET             |-> [ioctl |-> "perf_event_ioctls_RESET", arg_type |-> "c_uint"],
     PERIOD            |-> [ioctl |-> "perf_event_ioctls_PERIOD", arg_type |-> "u64"],
     SET_OUTPUT        |-> [ioctl |-> "perf_event_ioctls_SET_OUTPUT", arg_type |-> "c_int"],
     SET_FILTER        |-> [ioctl |-> "perf_event_ioctls_SET_FILTER", arg_type |-> "ptr"],
     ID                |-> [ioctl |-> "perf_event_ioctls_ID", arg_type |-> "ptr"],
     SET_BPF           |-> [ioctl |-> "perf_event_ioctls_SET_BPF", arg_type |-> "u32"],
     PAUSE_OUTPUT      |-> [ioctl |-> "perf_event_ioctls_PAUSE_OUTPUT", arg_type |-> "u32"],
     QUERY_BPF         |-> [ioctl |-> "perf_event_ioctls_QUERY_BPF", arg_type |-> "ptr"],
     MODIFY_ATTRIBUTES |-> [ioctl |-> "perf_event_ioctls_MODIFY_ATTRIBUTES",
                            arg_type |-> "ptr"]]

\* An entry pasted from the one above it with its constant left as it was.
define_ioctls_pasted(name) ==
    IF name = "DISABLE" THEN IoctlTable["ENABLE"] ELSE IoctlTable[name]

\* define_ioctls!: the entry of the shim `name`.
define_ioctls(name) == IoctlTable[name]

\* untyped_ioctl: the libc::ioctl call, the request cast as the target's
\* libc declares it.
untyped_ioctl(fd, ioctl, arg) ==
    IF target_env = "musl"
    THEN [fn |-> "ioctl", args |-> <<fd, as_c_int(ioctl), arg>>]
    ELSE [fn |-> "ioctl", args |-> <<fd, as_c_ulong(ioctl), arg>>]

\* define_ioctl!: the shim `name`.
define_ioctl(name, fd, arg) ==
    untyped_ioctl(fd, perf_event_ioctls(define_ioctls(name).ioctl), arg)

\* perf_event_open: the libc::syscall call.  attrs is the address of the
\* caller's struct; the cast to *const leaves it as it is.
perf_event_open(attrs_ptr, pid, cpu, group_fd, flags) ==
    [fn |-> "syscall",
     args |-> <<NR_perf_event_open, attrs_ptr, pid, cpu, group_fd, flags>>]

---------------------------------------------------------------------------
(* The caller's perf_event_attr *)

\* size_of::<perf_event_attr>() of this crate: PERF_ATTR_SIZE_VER6.
UserSize == 120

\* The 8-byte units of the caller's struct that follow its first
\* PERF_ATTR_SIZE_VER0 bytes.
ExtUnits == (UserSize - PERF_ATTR_SIZE_VER0) \div 8

\* The byte at which unit i of the extension ends.
ExtEnd(i) == PERF_ATTR_SIZE_VER0 + 8 * i

\* perf_event_attr::default(): zero-filled (lib.rs 24-25, 32).
Default ==
    [type_ |-> 0, size |-> 0, config |-> 0, flags |-> 0,
     ext |-> [i \in 1..ExtUnits |-> 0]]

\* perf_type_id_PERF_TYPE_HARDWARE (lib.rs 36) and perf_type_id_PERF_TYPE_MAX.
PERF_TYPE_HARDWARE == 0
PERF_TYPE_MAX == 6

\* What callers assign after default(): the documented fields (lib.rs
\* 35-40: size, type_, config, the disabled / exclude_kernel / exclude_hv
\* bits) and, for a feature of a newer header, one unit of the extension.
ExampleFlags == {0, 1 + 32 + 64}
ExtChoices ==
    {Default.ext} \cup {[Default.ext EXCEPT ![i] = 1] : i \in {1, 4, 5, ExtUnits}}

\* The size field properly initialized (lib.rs 35), the type valid.
ProperAttrs ==
    {[type_ |-> PERF_TYPE_HARDWARE, size |-> UserSize, config |-> cf,
      flags |-> fl, ext |-> ex] :
        cf \in {1}, fl \in ExampleFlags, ex \in ExtChoices}

\* The size field too small or too large.
BadSizeAttrs ==
    {[type_ |-> PERF_TYPE_HARDWARE, size |-> sz, config |-> 1,
      flags |-> 0, ext |-> ex] :
        sz \in {32, 2 * PAGE_SIZE}, ex \in {Default.ext, [Default.ext EXCEPT ![ExtUnits] = 1]}}

\* A nonexistent event type.
BadTypeAttrs ==
    {[type_ |-> PERF_TYPE_MAX + 71, size |-> UserSize, config |-> 1,
      flags |-> 0, ext |-> ex] :
        ex \in {Default.ext, [Default.ext EXCEPT ![ExtUnits] = 1]}}

AttrChoices == ProperAttrs \cup BadSizeAttrs \cup BadTypeAttrs

\* The example of lib.rs 28-45, and the same with a nonexistent type.
FewAttrs ==
    {[Default EXCEPT !.size = UserSize, !.type_ = ty, !.config = 1,
                     !.flags = 1 + 32 + 64] : ty \in {PERF_TYPE_HARDWARE, PERF_TYPE_MAX + 71}}

---------------------------------------------------------------------------
(* The environment: libc *)

\* OS error numbers (asm-generic/errno-base.h).
Errno ==
    [ENOENT |-> 2, EINTR |-> 4, E2BIG |-> 7, EBADF |-> 9, EFAULT |-> 14,
     EINVAL |-> 22, EMFILE |-> 24, ENOTTY |-> 25, ENOSYS |-> 38]

\* The raw results by which the kernel reports an error: -4095 .. -1.
IsKernelError(raw) == raw < 0 /\ raw >= 0 - 4095

\* libc::syscall: a kernel error becomes -1 with errno set; any other raw
\* result is returned as a c_long.
libc_syscall(raw, e) ==
    IF IsKernelError(raw) THEN [ret |-> ToLong(0 - 1), errno |-> 0 - raw]
                          ELSE [ret |-> ToLong(raw), errno |-> e]

\* libc::ioctl: the same convention, returning a c_int.
libc_ioctl(raw, e) ==
    IF IsKernelError(raw) THEN [ret |-> 0 - 1, errno |-> 0 - raw]
                          ELSE [ret |-> raw, errno |-> e]

\* The registers libc enters the kernel with.  An int request (musl's
\* ioctl(int, int, ...)) is converted to the register's long; an unsigned
\* long request is passed as it is.
libc_entry(r) ==
    IF r.fn = "ioctl" /\ Len(r.args[2]) = 2
    THEN [r EXCEPT !.args[2] = SignExtend64(r.args[2])]
    ELSE r

---------------------------------------------------------------------------
(* The environment: the kernel *)

\* sizeof(perf_event_attr) of the kernels considered: PERF_ATTR_SIZE_VER0,
\* VER3, VER6 (this crate's) and VER8.
KernelSizes == {64, 96, 120, 136}

NoDescriptors == [fd \in FdPool |-> FALSE]
IsOpen(tab, fd) == fd \in DOMAIN tab /\ tab[fd]
FreeFds(tab) == {fd \in DOMAIN tab : ~tab[fd]}

\* No kernel struct: the request was refused before the kernel had one.
NoAttr == <<>>

\* A check of the last unit of the caller's struct alone.
ExcessNonZero_lastOnly(u, k) ==
    ExtEnd(ExtUnits) > k /\ ExtEnd(ExtUnits) <= u.size /\ u.ext[ExtUnits] # 0

\* Some byte of the caller's struct past the kernel's k bytes, and within
\* the u.size bytes the caller declared, is not zero (lib.rs 85-86).
ExcessNonZero(u, k) ==
    \E i \in 1..ExtUnits : ExtEnd(i) > k /\ ExtEnd(i) <= u.size /\ u.ext[i] # 0

\* The kernel's own struct of k bytes: the start of the caller's struct,
\* padded with zeros (lib.rs 77-81, 88-91).
CopyStruct(u, k) ==
    [type_ |-> u.type_, size |-> u.size, config |-> u.config,
     flags |-> u.flags,
     ext |-> [i \in 1..((k - PERF_ATTR_SIZE_VER0) \div 8) |->
                 IF i <= ExtUnits /\ ExtEnd(i) <= u.size THEN u.ext[i] ELSE 0]]

\* A kernel that takes only a struct of its own size.
perf_copy_attr_strict(u, k) ==
    IF u.size # k
    THEN [err |-> Errno.E2BIG, u |-> [u EXCEPT !.size = k], kattr |-> NoAttr]
    ELSE [err |-> 0, u |-> u, kattr |-> CopyStruct(u, k)]

\* The kernel's reading of the caller's struct: E2BIG, with the size the
\* kernel expected written back, when the size field is too small or too
\* large (lib.rs 139-141) or the excess bytes are not all zero; otherwise
\* the kernel's copy, the size field left alone.
perf_copy_attr(u, k) ==
    IF u.size < PERF_ATTR_SIZE_VER0 \/ u.size > PAGE_SIZE
    THEN [err |-> Errno.E2BIG, u |-> [u EXCEPT !.size = k], kattr |-> NoAttr]
    ELSE IF ExcessNonZero(u, k)
    THEN [err |-> Errno.E2BIG, u |-> [u EXCEPT !.size = k], kattr |-> NoAttr]
    ELSE [err |-> 0, u |-> u, kattr |-> CopyStruct(u, k)]

\* perf_event_open(2).  fault is an error the kernel may find for reasons
\* the model does not see (0: none); newfd the descriptor it allocates.
sys_perf_event_open(tab, u, k, pid, cpu, group_fd, fault, newfd) ==
    LET c == perf_copy_attr(u, k)
        fail(e) == [res |-> 0 - e, u |-> c.u, tab |-> tab, kattr |-> c.kattr]
    IN  IF c.err # 0 THEN fail(c.err)
        ELSE IF newfd \notin FreeFds(tab) THEN fail(Errno.EMFILE)
        ELSE IF group_fd # 0 - 1 /\ ~IsOpen(tab, group_fd) THEN fail(Errno.EBADF)
        ELSE IF pid = 0 - 1 /\ cpu = 0 - 1 THEN fail(Errno.EINVAL)
        ELSE IF c.kattr.type_ >= PERF_TYPE_MAX THEN fail(Errno.ENOENT)
        ELSE IF fault # 0 THEN fail(fault)
        ELSE [res |-> newfd, u |-> c.u, tab |-> [tab EXCEPT ![newfd] = TRUE],
              kattr |-> c.kattr]

\* The request codes the kernel's perf ioctl handler knows.
KernelIoctlCodes ==
    {IOC(0, 0, 0), IOC(0, 0, 1), IOC(0, 0, 2), IOC(0, 0, 3), IOC(1, 8, 4),
     IOC(0, 0, 5), IOC(1, 8, 6), IOC(2, 8, 7), IOC(1, 4, 8), IOC(1, 4, 9),
     IOC(3, 8, 10), IOC(1, 8, 11)}

\* ioctl(2) on a perf descriptor: cmd is an unsigned int, the low 32 bits
\* of its register.  val is the value a successful operation returns.
sys_ioctl(tab, fd, cmd_reg, arg, fault, val) ==
    IF ~IsOpen(tab, fd) THEN 0 - Errno.EBADF
    ELSE IF Low32(cmd_reg) \notin KernelIoctlCodes THEN 0 - Errno.ENOTTY
    ELSE IF fault # 0 THEN 0 - fault
    ELSE val

\* The address of thread t's perf_event_attr.
AttrsPtr(t) == <<"attrs", t>>

\* The kernel's execution of the request r (the registers of libc_entry)
\* against the descriptors tab and the user memory umem: its raw result,
\* the descriptors and the user memory after it, and the struct the kernel
\* ended up with.
kernel(tab, r, umem, k, fault, val, newfd) ==
    IF r.fn = "syscall"
    THEN IF r.args[1] # NR_perf_event_open
         THEN [res |-> 0 - Errno.ENOSYS, umem |-> umem, tab |-> tab, kattr |-> NoAttr]
         ELSE IF r.args[2] \notin {AttrsPtr(t) : t \in Threads}
         THEN [res |-> 0 - Errno.EFAULT, umem |-> umem, tab |-> tab, kattr |-> NoAttr]
         ELSE LET a == r.args[2][2]
                  o == sys_perf_event_open(tab, umem[a], k, r.args[3], r.args[4],
                                           r.args[5], fault, newfd)
              IN  [res |-> o.res, umem |-> [umem EXCEPT ![a] = o.u],
                   tab |-> o.tab, kattr |-> o.kattr]
    ELSE [res |-> sys_ioctl(tab, r.args[1], r.args[2], r.args[3], fault, val),
          umem |-> umem, tab |-> tab, kattr |-> NoAttr]

\* Errors the kernel may report for reasons the model does not see (0:
\* none), and the values a successful control operation may return.
Faults == {0, Errno.EINTR, Errno.EINVAL}
Vals == {0, 1}

---------------------------------------------------------------------------
(* The callers' inputs *)

\* (pid, cpu, group_fd, flags); flags 8 is PERF_FLAG_FD_CLOEXEC.  pid = -1
\* with cpu = -1 is invalid, and so is a group_fd that is not open.
OpenArgs ==
    {<<pc_[1], pc_[2], g, f>> :
        pc_ \in {<<0, 0 - 1>>, <<0 - 1, 0>>, <<0 - 1, 0 - 1>>},
        g \in {0 - 1, 3, 99}, f \in {0, 8}}
FewOpenArgs == {<<0, 0 - 1, 0 - 1, 0>>, <<0 - 1, 0 - 1, 0 - 1, 8>>}
ExampleArgs == {<<0, 0 - 1, 0 - 1, 0>>}

ArgsOf(arg_type) ==
    CASE arg_type = "c_uint" -> {0, 1}
      [] arg_type = "c_int"  -> {0 - 1, 1}
      [] arg_type = "u64"    -> {1000}
      [] arg_type = "u32"    -> {0, 1}
      [] arg_type = "ptr"    -> {0, 4096}

NoCall == [shim |-> "none", a |-> <<>>]
NoReq == [fn |-> "none", args |-> <<>>]

---------------------------------------------------------------------------
(* The state machine *)

\* The build's target_env among T, the running kernel's struct size among K.
Init0(T, K) ==
    /\ target_env \in T
    /\ ksize \in K
    /\ pc = [t \in Threads |-> "idle"]
    /\ call = [t \in Threads |-> NoCall]
    /\ req = [t \in Threads |-> NoReq]
    /\ nreq = [t \in Threads |-> 0]
    /\ attrs = [t \in Threads |-> Default]
    /\ attrs0 = [t \in Threads |-> Default]
    /\ errno = [t \in Threads |-> 0]
    /\ errno0 = [t \in Threads |-> 0]
    /\ kres = [t \in Threads |-> 0]
    /\ ret = [t \in Threads |-> 0]
    /\ kattr = [t \in Threads |-> NoAttr]
    /\ fdtab = NoDescriptors
    /\ solo = [t \in Threads |-> NoDescriptors]
    /\ kresSolo = [t \in Threads |-> 0]

\* Thread t enters the kernel with the libc call r its shim made.
Enter(t, c, r) ==
    /\ call' = [call EXCEPT ![t] = c]
    /\ req' = [req EXCEPT ![t] = r]
    /\ nreq' = [nreq EXCEPT ![t] = 1]
    /\ errno0' = [errno0 EXCEPT ![t] = errno[t]]
    /\ kres' = [kres EXCEPT ![t] = 0]
    /\ kresSolo' = [kresSolo EXCEPT ![t] = 0]
    /\ ret' = [ret EXCEPT ![t] = 0]
    /\ kattr' = [kattr EXCEPT ![t] = NoAttr]
    /\ pc' = [pc EXCEPT ![t] = "inKernel"]
    /\ UNCHANGED <<target_env, ksize, errno, fdtab, solo>>

\* Thread t builds its perf_event_attr and calls perf_event_open.
Call_perf_event_open(t, A, P) ==
    /\ pc[t] = "idle"
    /\ \E u \in A, p \in P :
          /\ attrs' = [attrs EXCEPT ![t] = u]
          /\ attrs0' = [attrs0 EXCEPT ![t] = u]
          /\ Enter(t, [shim |-> "perf_event_open",
                       a |-> <<AttrsPtr(t), p[1], p[2], p[3], p[4]>>],
                   perf_event_open(AttrsPtr(t), p[1], p[2], p[3], p[4]))

\* A shim that checks its descriptor itself and, for a negative one, returns
\* -1 with EBADF without entering the kernel.
Call_ioctl_validating(t, N) ==
    /\ pc[t] = "idle"
    /\ \E name \in N, fd \in {d \in FdPool : solo[t][d]} \cup {0 - 1} :
       \E arg \in ArgsOf(define_ioctls(name).arg_type) :
          IF fd < 0
          THEN /\ call' = [call EXCEPT ![t] = [shim |-> name, a |-> <<fd, arg>>]]
               /\ req' = [req EXCEPT ![t] = NoReq]
               /\ nreq' = [nreq EXCEPT ![t] = 0]
               /\ errno0' = [errno0 EXCEPT ![t] = errno[t]]
               /\ ret' = [ret EXCEPT ![t] = 0 - 1]
               /\ errno' = [errno EXCEPT ![t] = Errno.EBADF]
               /\ kres' = [kres EXCEPT ![t] = 0 - Errno.EBADF]
               /\ kresSolo' = [kresSolo EXCEPT ![t] = 0 - Errno.EBADF]
               /\ UNCHANGED <<target_env, ksize, pc, kattr, fdtab, solo>>
          ELSE Enter(t, [shim |-> name, a |-> <<fd, arg>>], define_ioctl(name, fd, arg))
    /\ attrs0' = [attrs0 EXCEPT ![t] = attrs[t]]
    /\ UNCHANGED attrs

\* A shim that keeps the descriptor in a static: the request goes to the
\* descriptor of the main thread's last control call.
Call_ioctl_staticFd(t, N) ==
    /\ pc[t] = "idle"
    /\ \E name \in N, fd \in {d \in FdPool : solo[t][d]} \cup {0 - 1} :
       \E arg \in ArgsOf(define_ioctls(name).arg_type) :
          Enter(t, [shim |-> name, a |-> <<fd, arg>>],
                define_ioctl(name,
                             IF call[MainThread].shim \in IoctlNames
                             THEN call[MainThread].a[1] ELSE fd,
                             arg))
    /\ attrs0' = [attrs0 EXCEPT ![t] = attrs[t]]
    /\ UNCHANGED attrs

\* Thread t calls the ioctl shim `name` on one of its descriptors, or on -1.
Call_ioctl(t, N) ==
    /\ pc[t] = "idle"
    /\ \E name \in N, fd \in {d \in FdPool : solo[t][d]} \cup {0 - 1} :
       \E arg \in ArgsOf(define_ioctls(name).arg_type) :
          Enter(t, [shim |-> name, a |-> <<fd, arg>>], define_ioctl(name, fd, arg))
    /\ attrs0' = [attrs0 EXCEPT ![t] = attrs[t]]
    /\ UNCHANGED attrs

\* Shims that hand the kernel's raw result to the caller: a negated error
\* number on failure, errno left alone.
shim_return_raw(r, raw, e) == [ret |-> raw, errno |-> e]

\* What the shim returns for the kernel's raw result: perf_event_open
\* narrows libc::syscall's c_long (lib.rs 158); an ioctl shim returns
\* libc::ioctl's c_int as it is (lib.rs 184, 210, 213).
shim_return(r, raw, e) ==
    IF r.fn = "syscall"
    THEN LET l == libc_syscall(raw, e)
         IN  [ret |-> long_as_c_int(l.ret), errno |-> l.errno]
    ELSE libc_ioctl(raw, e)

\* The blocking call of thread t completes: the kernel executes the request,
\* libc reports the result, and the shim returns.
Complete(t, F, V) ==
    /\ pc[t] = "inKernel"
    /\ \E fault \in F, val \in V, newfd \in FdPool :
          /\ newfd \in FreeFds(fdtab) \/ FreeFds(fdtab) = {}
          /\ LET r == libc_entry(req[t])
                 k == kernel(fdtab, r, attrs, ksize, fault, val, newfd)
                 s == kernel(solo[t], r, attrs, ksize, fault, val, newfd)
                 out == shim_return(req[t], k.res, errno[t])
             IN  /\ kres' = [kres EXCEPT ![t] = k.res]
                 /\ kresSolo' = [kresSolo EXCEPT ![t] = s.res]
                 /\ kattr' = [kattr EXCEPT ![t] = k.kattr]
                 /\ attrs' = k.umem
                 /\ fdtab' = k.tab
                 /\ solo' = [solo EXCEPT ![t] =
                               [fd \in FdPool |->
                                   solo[t][fd] \/ (k.tab[fd] /\ ~fdtab[fd])]]
                 /\ ret' = [ret EXCEPT ![t] = out.ret]
                 /\ errno' = [errno EXCEPT ![t] = out.errno]
    /\ pc' = [pc EXCEPT ![t] = "idle"]
    /\ UNCHANGED <<target_env, ksize, call, req, nreq, attrs0, errno0>>

\* One caller of perf_event_open, on every kernel.
NextOpen ==
    \/ Call_perf_event_open(MainThread, AttrChoices, FewOpenArgs)
    \/ Call_perf_event_open(MainThread, FewAttrs, OpenArgs)
    \/ Call_ioctl(MainThread, {"ENABLE"})
    \/ Complete(MainThread, {0, Errno.EINTR}, {0})

SpecOpen == Init0({"gnu"}, KernelSizes) /\ [][NextOpen]_vars

\* One caller of the ioctl shims, on every build.
NextIoctl ==
    \/ Call_perf_event_open(MainThread, FewAttrs, ExampleArgs)
    \/ Call_ioctl(MainThread, IoctlNames)
    \/ Complete(MainThread, Faults, Vals)

SpecIoctl == Init0({"gnu", "musl"}, {UserSize}) /\ [][NextIoctl]_vars

\* Several callers at once, each on its own descriptors.
NextThreads ==
    \E t \in Threads :
        \/ /\ FreeFds(solo[t]) = FdPool
           /\ Call_perf_event_open(t, {[Default EXCEPT !.size = UserSize, !.config = 1]}, ExampleArgs)
        \/ Call_ioctl(t, {"PERIOD"})
        \/ Complete(t, {0, Errno.EINTR}, {0})

SpecThreads == Init0({"gnu"}, {UserSize}) /\ [][NextThreads]_vars

---------------------------------------------------------------------------
(* Properties *)

\* Thread t's call has returned.
Done(t) == pc[t] = "idle" /\ call[t].shim # "none"
OpenCall(t) == call[t].shim = "perf_event_open"
IoctlCall(t) == call[t].shim \in IoctlNames

\* The call of thread t failed, and the cause it reports is e.
FailedWith(t, e) == ret[t] < 0 /\ errno[t] = e

\* C1: when the kernel rejects a perf_event_open request with error E, the
\* shim returns -E, the negated raw OS error value, and errno is left as it
\* was before the call.
C1_NegatedErrorErrnoUnchanged ==
    \A t \in Threads :
        Done(t) /\ OpenCall(t) /\ IsKernelError(kres[t]) =>
            ret[t] = kres[t] /\ errno[t] = errno0[t]

\* C4: perf_event_open issues system call __NR_perf_event_open with
\* (attrs, pid, cpu, group_fd, flags) in that order and unmodified, and
\* returns the kernel's raw result, unchanged by the narrowing to c_int.
C4_RawResultReturned ==
    \A t \in Threads :
        OpenCall(t) =>
            /\ libc_entry(req[t]).fn = "syscall"
            /\ libc_entry(req[t]).args = <<NR_perf_event_open>> \o call[t].a
            /\ Done(t) => ret[t] = kres[t]

\* C8: perf_event_open with invalid parameters (a nonexistent event type,
\* pid = -1 with cpu = -1, a group_fd that is no open descriptor) returns
\* a negative value to the caller.  (Descriptors are never closed here, so
\* a group_fd that is not open after the call was not open before it.)
InvalidParams(t) ==
    \/ attrs0[t].type_ >= PERF_TYPE_MAX
    \/ call[t].a[2] = 0 - 1 /\ call[t].a[3] = 0 - 1
    \/ call[t].a[4] # 0 - 1 /\ ~IsOpen(fdtab, call[t].a[4])

C8_InvalidOpenReturnsNegative ==
    \A t \in Threads :
        Done(t) /\ OpenCall(t) /\ InvalidParams(t) => ret[t] < 0

C8_Witness ==
    \E t \in Threads :
        /\ Done(t) /\ OpenCall(t) /\ ret[t] < 0
        /\ attrs0[t].type_ >= PERF_TYPE_MAX
        /\ attrs0[t].size = UserSize /\ ~ExcessNonZero(attrs0[t], ksize)
        /\ call[t].a[2] = 0 /\ call[t].a[4] = 0 - 1

\* C6: with the size field properly initialized and the kernel's struct
\* smaller than the caller's, the call fails with E2BIG exactly when some
\* excess byte of the caller's struct is not zero; whenever it fails with
\* E2BIG the size field holds the size the kernel expected; with the
\* kernel's struct of the same size or larger there is no E2BIG and the size
\* field is not rewritten.
C6_E2BIGExactlyOnNonZeroExcess ==
    \A t \in Threads :
        Done(t) /\ OpenCall(t) =>
            /\ attrs0[t].size = UserSize /\ ksize < UserSize =>
                 (FailedWith(t, Errno.E2BIG) <=>
                    \E i \in 1..ExtUnits :
                        ExtEnd(i) > ksize /\ attrs0[t].ext[i] # 0)
            /\ FailedWith(t, Errno.E2BIG) => attrs[t].size = ksize
            /\ attrs0[t].size = UserSize /\ ksize >= UserSize =>
                 ~FailedWith(t, Errno.E2BIG) /\ attrs[t].size = attrs0[t].size

C6_Witness ==
    \E t \in Threads :
        /\ Done(t) /\ OpenCall(t) /\ attrs0[t].size = UserSize
        /\ ksize < UserSize /\ ksize > PERF_ATTR_SIZE_VER0
        /\ attrs0[t].ext[ExtUnits] # 0
        /\ FailedWith(t, Errno.E2BIG) /\ attrs[t].size = ksize

\* C7: a struct built by default() with only size, type_, config and the
\* documented flag bits set passes the kernel's size and zero-padding
\* validation on a smaller, an equal and a larger kernel struct, with the
\* size field as the caller set it, and the struct the kernel ends up with
\* holds the caller's type_, config and flags and zeros everywhere else.
ZeroDefaultBuilt(u) == u.size = UserSize /\ u.ext = Default.ext

C7_ZeroDefaultAccepted ==
    \A t \in Threads :
        Done(t) /\ OpenCall(t) /\ ZeroDefaultBuilt(attrs0[t]) =>
            /\ kres[t] # 0 - Errno.E2BIG
            /\ attrs[t] = attrs0[t]
            /\ kattr[t] # NoAttr
            /\ kattr[t].type_ = attrs0[t].type_
            /\ kattr[t].config = attrs0[t].config
            /\ kattr[t].flags = attrs0[t].flags
            /\ Len(kattr[t].ext) = (ksize - PERF_ATTR_SIZE_VER0) \div 8
            /\ \A i \in DOMAIN kattr[t].ext : kattr[t].ext[i] = 0

C7_Witness ==
    \E t \in Threads :
        /\ Done(t) /\ OpenCall(t) /\ ZeroDefaultBuilt(attrs0[t])
        /\ ksize < UserSize /\ ret[t] >= 0
        /\ attrs0[t].config = 1 /\ attrs0[t].flags = 1 + 32 + 64
        /\ kattr[t].config = 1

\* C9: every invocation of a shim issues exactly one kernel request and
\* then returns, whatever its arguments and whatever the outcome: a size
\* mismatch or an interrupted call is not retried.
C9_OneRequestPerCall ==
    \A t \in Threads :
        /\ call[t].shim # "none" => nreq[t] = 1
        /\ call[t].shim = "none" => nreq[t] = 0

C9_Witness ==
    \E t \in Threads :
        /\ Done(t) /\ OpenCall(t) /\ nreq[t] = 1
        /\ kres[t] = 0 - Errno.E2BIG /\ attrs0[t].size = UserSize

\* C2: for each of the twelve ioctl shims, a failed request returns exactly
\* -1 with errno holding the cause, and a successful one returns the
\* operation's non-negative value.
C2_IoctlErrnoConvention ==
    \A t \in Threads :
        Done(t) /\ IoctlCall(t) =>
            /\ IsKernelError(kres[t]) => ret[t] = 0 - 1 /\ errno[t] = 0 - kres[t]
            /\ ~IsKernelError(kres[t]) =>
                 ret[t] = kres[t] /\ ret[t] >= 0 /\ errno[t] = errno0[t]

C2_Witness ==
    \E t \in Threads :
        /\ Done(t) /\ call[t].shim = "QUERY_BPF"
        /\ ret[t] = 0 - 1 /\ errno[t] = Errno.EBADF /\ errno0[t] = Errno.EINTR

\* C3: the shim named X issues exactly the request code
\* perf_event_ioctls_X, no two shims issue the same code, and the
\* descriptor and the argument reach the request as they were given.
C3_ShimIssuesItsOwnCode ==
    /\ \A t \in Threads :
          IoctlCall(t) =>
              /\ libc_entry(req[t]).fn = "ioctl"
              /\ Low32(libc_entry(req[t]).args[2]) =
                     perf_event_ioctls("perf_event_ioctls_" \o call[t].shim)
              /\ libc_entry(req[t]).args[1] = call[t].a[1]
              /\ libc_entry(req[t]).args[3] = call[t].a[2]
    /\ \A n, m \in IoctlNames :
          n # m => define_ioctl(n, 3, 0).args[2] # define_ioctl(m, 3, 0).args[2]

C3_Witness ==
    \E t \in Threads :
        /\ Done(t) /\ call[t].shim = "DISABLE" /\ call[t].a = <<3, 1>>
        /\ ret[t] = 0

\* C5: on musl, where the request is cast to c_int, every request code,
\* also one with the top bit of its 32 bits set, reaches the kernel as the
\* same 32-bit code as on the other targets.
C5_MuslSameRequestCode ==
    \A t \in Threads :
        IoctlCall(t) /\ target_env = "musl" =>
            /\ Len(req[t].args[2]) = 2
            /\ Low32(libc_entry(req[t]).args[2]) =
                   perf_event_ioctls("perf_event_ioctls_" \o call[t].shim)
            /\ Low32(libc_entry(req[t]).args[2]) =
                   Low32(as_c_ulong(perf_event_ioctls("perf_event_ioctls_" \o call[t].shim)))

C5_Witness ==
    \E t \in Threads :
        /\ target_env = "musl" /\ Done(t) /\ call[t].shim = "ID"
        /\ req[t].args[2][2] >= Limb \div 2
        /\ libc_entry(req[t]).args[2][4] = Limb - 1
        /\ ret[t] = 0

\* C10: the shims share no state: under every interleaving of threads
\* calling on their own descriptors, each call's request is the one its own
\* arguments give, its result and its errno are the ones its own kernel
\* result gives, and the kernel result of a control operation is the one
\* the call gets when the thread runs alone.
C10_CallsIndependent ==
    \A t \in Threads :
        /\ OpenCall(t) =>
              req[t] = [fn |-> "syscall", args |-> <<NR_perf_event_open>> \o call[t].a]
        /\ IoctlCall(t) =>
              /\ req[t].fn = "ioctl"
              /\ req[t].args[1] = call[t].a[1]
              /\ req[t].args[3] = call[t].a[2]
              /\ Low32(req[t].args[2]) =
                     perf_event_ioctls("perf_event_ioctls_" \o call[t].shim)
        /\ Done(t) =>
              /\ IsKernelError(kres[t]) => ret[t] = 0 - 1 /\ errno[t] = 0 - kres[t]
              /\ ~IsKernelError(kres[t]) => ret[t] = kres[t] /\ errno[t] = errno0[t]
              /\ IoctlCall(t) => kres[t] = kresSolo[t]

C10_Witness ==
    \E t, u \in Threads :
        /\ t # u
        /\ pc[t] = "inKernel" /\ IoctlCall(t) /\ call[t].a[1] \in FdPool
        /\ Done(u) /\ IoctlCall(u) /\ call[u].a[1] \in FdPool
        /\ call[t].a[1] # call[u].a[1]
        /\ ret[u] = 0 - 1 /\ errno[u] = Errno.EINTR /\ errno[t] = 0

====
